---- MODULE Spec2Model ----
(***************************************************************************)
(* Cross-LLM-Validator: the validation run of app.py (process_validation   *)
(* and the button handler of main) over the LLMHandler of llm_handler.py.  *)
(*                                                                         *)
(* Python dicts are modelled two ways.  A dict with a fixed small set of   *)
(* string keys (a model, a call result, an answer entry, session_state)    *)
(* is a TLA+ function over the keys it holds, so that `k in d` is          *)
(* k \in DOMAIN d.  A dict keyed by provider name, whose insertion order   *)
(* the program shows and exports, is a sequence of [k, v] pairs.           *)
(* Strings the program inspects character by character (the judge's        *)
(* reply) are sequences of one-character strings.                          *)
(***************************************************************************)
EXTENDS Integers, Sequences, FiniteSets, TLC

VARIABLES
    openai_api_key,    \* os.getenv('OPENAI_API_KEY'): <<>> for None, else <<the string>>
    gemini_api_key,    \* os.getenv('GEMINI_API_KEY'), likewise
    llm_handler,       \* get_llm_handler's cached value: uncached, LLMHandler or None
    config_error,      \* what st.error showed for a ValueError of the constructor: <<>> or <<prefix, e>>
    models,            \* LLMHandler.models
    pc,                \* where the run is: idle, initial, judging, compared, revising, done, aborted
    question,          \* process_validation's question argument
    tasks,             \* the calls of the fan-out batch (or the judge call) last issued
    call_results,      \* task index -> CallResult, for the calls that have returned
    completion_order,  \* task indexes in the order the calls returned
    initial_answers,   \* process_validation's initial_answers
    judge_result,      \* are_answers_similar's result: <<>> or <<CallResult>>
    answers_are_similar, \* process_validation's answers_are_similar (bound from pc = "compared")
    results,           \* process_validation's results
    session_state,     \* st.session_state
    call_log,          \* the provider calls this run has issued, in order
    earlier_run        \* history: how the run before the current one ended, or none

\* what get_llm_handler reads and leaves
startup == <<openai_api_key, gemini_api_key, llm_handler, config_error>>

vars == <<startup, earlier_run, models, pc, question, tasks, call_results, completion_order,
          initial_answers, judge_result, answers_are_similar, results,
          session_state, call_log>>

----------------------------------------------------------------------------
\* Bounds of the model.

\* longest judge reply enumerated character by character
MaxReplyLen == 3
\* longest provider list the registry operations build
MaxModels == 3

\* _make_api_call's default temperature 0.7 and the judge's 0, in tenths
DefaultTemp == 7
JudgeTemp == 0

----------------------------------------------------------------------------
\* Python dict and str primitives.

\* {**a, **b} and a.update(b): b's keys win
Merge(a, b) ==
    [x \in (DOMAIN a) \cup (DOMAIN b) |-> IF x \in DOMAIN b THEN b[x] ELSE a[x]]

\* {} : a dict with no key
EmptyDict == [x \in {} |-> ""]

\* d.get(key, default)
Get(d, key, default) == IF key \in DOMAIN d THEN d[key] ELSE default

\* name in d, d[name], d[name] = val for a dict keyed by provider name
DictHas(d, name) == \E i \in 1..Len(d) : d[i].k = name
DictGet(d, name) == d[CHOOSE i \in 1..Len(d) : d[i].k = name].v
DictSet(d, name, val) ==
    IF DictHas(d, name)
    THEN [i \in 1..Len(d) |-> IF d[i].k = name THEN [k |-> name, v |-> val] ELSE d[i]]
    ELSE Append(d, [k |-> name, v |-> val])
\* list(d): the keys in insertion order
DictKeys(d) == [i \in 1..Len(d) |-> d[i].k]

\* str.strip(): the characters it removes from both ends
Whitespace == {" ", "\t", "\n", "\r", "\f"}

RECURSIVE LStrip(_)
LStrip(s) == IF s # <<>> /\ Head(s) \in Whitespace THEN LStrip(Tail(s)) ELSE s

RECURSIVE RStrip(_)
RStrip(s) ==
    IF s # <<>> /\ s[Len(s)] \in Whitespace THEN RStrip(SubSeq(s, 1, Len(s) - 1)) ELSE s

Strip(s) == RStrip(LStrip(s))

\* str.upper() on the ASCII letters
LowerLetters == <<"a","b","c","d","e","f","g","h","i","j","k","l","m",
                  "n","o","p","q","r","s","t","u","v","w","x","y","z">>
UpperLetters == <<"A","B","C","D","E","F","G","H","I","J","K","L","M",
                  "N","O","P","Q","R","S","T","U","V","W","X","Y","Z">>
UpperChar(c) ==
    IF \E i \in 1..Len(LowerLetters) : LowerLetters[i] = c
    THEN UpperLetters[CHOOSE i \in 1..Len(LowerLetters) : LowerLetters[i] = c]
    ELSE c
Upper(s) == [i \in 1..Len(s) |-> UpperChar(s[i])]

----------------------------------------------------------------------------
\* What the providers can answer.

\* answers a provider returns to a question or to a revision prompt
Contents == {"4", "four"}

\* characters of the judge replies that are enumerated exhaustively
ReplyChars == {"Y", "e", "S", " ", "."}
\* replies the judge is documented to give, and the ones the spec names
ExampleReplies ==
    { <<"N","O">>, <<"n","o">>, <<"Y","E","S",".">>, <<" ","y","e","s","\n">>,
      <<"\t","Y","e","s"," "," ">>, <<"Y","E","S"," ","N","O">>,
      <<"Y","e","s",","," ","t","h","e","y"," ","a","g","r","e","e">> }
JudgeReplies ==
    (UNION {[1..n -> ReplyChars] : n \in 0..MaxReplyLen}) \cup ExampleReplies

\* questions the user enters (non-empty after strip)
Questions == {"What is 2+2?"}

\* names and ids add_model / remove_model are called with
RegistryNames == {"GPT-4o-mini", "Gemini-1.5-Flash", "Claude-3"}
RegistryModelIds == {"custom-model"}

----------------------------------------------------------------------------
\* LLMHandler

\* self.models as __init__ leaves it
DefaultModels ==
    << [name |-> "GPT-4o-mini", model_id |-> "gpt-4o-mini", api |-> "openai"],
       [name |-> "Gemini-1.5-Flash", model_id |-> "gemini-1.5-flash-latest", api |-> "gemini"] >>

\* self.judge_model_id, self.judge_api
JudgeModelId == "gpt-4o-mini"
JudgeApi == "openai"

\* The CallResults one _make_api_call can return: the adapters catch every
\* exception and return it as an error tagged with the backend's name; an
\* api that is neither backend is an error without any call.
Success(text) == [success |-> TRUE, content |-> text]
Failure(msg) == [success |-> FALSE, error |-> msg]
Outcomes(api, texts) ==
    IF api = "openai" THEN {Success(t) : t \in texts} \cup {Failure("OpenAI Error: e")}
    ELSE IF api = "gemini" THEN {Success(t) : t \in texts} \cup {Failure("Gemini Error: e")}
    ELSE {Failure("Unknown API")}

\* Gather handing the results out in the order the calls returned
GatherAsCompleted(n, returned, order) == [i \in 1..n |-> returned[order[i]]]

\* asyncio.gather: the results in the order of the awaitables passed to it,
\* whatever the order the calls returned in
Gather(n, returned, order) == [i \in 1..n |-> returned[i]]

\* get_initial_answers: the calls it issues, one per model, in self.models order
UserMessage(body) == <<[role |-> "user", content |-> body]>>
InitialTasks(ms, q) ==
    [i \in 1..Len(ms) |->
        [kind |-> "initial", name |-> ms[i].name, api |-> ms[i].api,
         model_id |-> ms[i].model_id,
         messages |-> UserMessage([template |-> "question", question |-> q]),
         temp |-> DefaultTemp]]

\* m["api"] raises KeyError for a model that has no such key
InitialRaises(ms) == \E i \in 1..Len(ms) : "api" \notin DOMAIN ms[i]

\* get_initial_answers: answers[model_info["name"]] = {**result, **model_info}
RECURSIVE AnswersUpTo(_, _, _)
AnswersUpTo(ms, res, n) ==
    IF n = 0 THEN <<>>
    ELSE DictSet(AnswersUpTo(ms, res, n - 1), ms[n].name, Merge(res[n], ms[n]))
InitialAnswers(ms, res) == AnswersUpTo(ms, res, Len(res))

\* AnswerList without the filter on content
AnswerListOfAll(answers) ==
    [i \in 1..Len(answers) |->
        [name |-> answers[i].v.name, content |-> Get(answers[i].v, "content", "None")]]

\* are_answers_similar: the answers that have content, in the dict's order
HasContent(pair) == "content" \in DOMAIN pair.v
AnswerList(answers) ==
    LET with == SelectSeq(answers, HasContent)
    IN  [i \in 1..Len(with) |-> [name |-> with[i].v.name, content |-> with[i].v.content]]

\* JudgeTask leaving the temperature to _make_api_call's default
JudgeTaskDefaultTemp(q, answer_list) ==
    [kind |-> "judge", name |-> "judge", api |-> JudgeApi, model_id |-> JudgeModelId,
     messages |-> UserMessage([template |-> "comparison", question |-> q,
                               first |-> answer_list[1], second |-> answer_list[2]]),
     temp |-> DefaultTemp]

\* are_answers_similar: the judge call
JudgeTask(q, answer_list) ==
    [kind |-> "judge", name |-> "judge", api |-> JudgeApi, model_id |-> JudgeModelId,
     messages |-> UserMessage([template |-> "comparison", question |-> q,
                               first |-> answer_list[1], second |-> answer_list[2]]),
     temp |-> JudgeTemp]

\* Verdict without the strip
VerdictUnstripped(result) == Upper(Get(result, "content", <<>>)) = <<"Y", "E", "S">>

\* Verdict reading a missing content as YES
VerdictFailOpen(result) ==
    Upper(Strip(Get(result, "content", <<"Y", "E", "S">>))) = <<"Y", "E", "S">>

\* are_answers_similar: result.get("content", "").strip().upper() == "YES"
Verdict(result) == Upper(Strip(Get(result, "content", <<>>))) = <<"Y", "E", "S">>

\* get_revised_answers: next((m for m in self.models if m["name"] != model_name), None),
\* as an index into self.models, 0 for None
OtherModel(ms, name) ==
    IF \E i \in 1..Len(ms) : ms[i].name # name
    THEN CHOOSE i \in 1..Len(ms) :
            ms[i].name # name /\ \A j \in 1..(i - 1) : ms[j].name = name
    ELSE 0

\* Skipped, taking the first model for the one that was already revised
SkippedAfterFirst(ms, i, original) ==
    \/ i > 1
    \/ OtherModel(ms, ms[i].name) = 0
    \/ ~DictHas(original, ms[i].name)
    \/ ~DictHas(original, ms[OtherModel(ms, ms[i].name)].name)

\* get_revised_answers: the models its loop skips (continue)
Skipped(ms, i, original) ==
    \/ OtherModel(ms, ms[i].name) = 0
    \/ ~DictHas(original, ms[i].name)
    \/ ~DictHas(original, ms[OtherModel(ms, ms[i].name)].name)

\* get_revised_answers: building a prompt or a call raises KeyError when an
\* answer it embeds has no content, or the model has no api
RevisionRaises(ms, original) ==
    \E i \in 1..Len(ms) :
        /\ ~Skipped(ms, i, original)
        /\ \/ "content" \notin DOMAIN DictGet(original, ms[i].name)
           \/ "content" \notin DOMAIN DictGet(original, ms[OtherModel(ms, ms[i].name)].name)
           \/ "api" \notin DOMAIN ms[i]

\* RevisionTask with the two answers in each other's place
RevisionTaskSwapped(ms, i, q, original) ==
    [kind |-> "revision", name |-> ms[i].name, api |-> ms[i].api,
     model_id |-> ms[i].model_id,
     messages |-> UserMessage(
        [template |-> "feedback", question |-> q,
         yours |-> DictGet(original, ms[OtherModel(ms, ms[i].name)].name).content,
         other |-> DictGet(original, ms[i].name).content]),
     temp |-> DefaultTemp]

\* get_revised_answers: the (model_name, task) list
RevisionTask(ms, i, q, original) ==
    [kind |-> "revision", name |-> ms[i].name, api |-> ms[i].api,
     model_id |-> ms[i].model_id,
     messages |-> UserMessage(
        [template |-> "feedback", question |-> q,
         yours |-> DictGet(original, ms[i].name).content,
         other |-> DictGet(original, ms[OtherModel(ms, ms[i].name)].name).content]),
     temp |-> DefaultTemp]
RECURSIVE RevisionTasksUpTo(_, _, _, _)
RevisionTasksUpTo(ms, n, q, original) ==
    IF n = 0 THEN <<>>
    ELSE IF Skipped(ms, n, original) THEN RevisionTasksUpTo(ms, n - 1, q, original)
    ELSE Append(RevisionTasksUpTo(ms, n - 1, q, original), RevisionTask(ms, n, q, original))
RevisionTasks(ms, q, original) == RevisionTasksUpTo(ms, Len(ms), q, original)

\* RevisedEntry with the failure branch dropping the error
RevisedEntryLosesError(old, result) ==
    IF result.success
    THEN Merge(old, [content |-> result.content,
                     original_content |-> Get(old, "content", "None")])
    ELSE old

\* get_revised_answers: one provider's revised entry
RevisedEntry(old, result) ==
    IF result.success
    THEN Merge(old, [content |-> result.content,
                     original_content |-> Get(old, "content", "None")])
    ELSE Merge(old, [error |-> result.error])

\* get_revised_answers: revised_answers, filled in task order
RECURSIVE RevisedUpTo(_, _, _, _)
RevisedUpTo(ts, res, original, n) ==
    IF n = 0 THEN <<>>
    ELSE DictSet(RevisedUpTo(ts, res, original, n - 1), ts[n].name,
                 RevisedEntry(DictGet(original, ts[n].name), res[n]))
RevisedAnswers(ts, res, original) == RevisedUpTo(ts, res, original, Len(ts))

----------------------------------------------------------------------------
\* app.py

AgreedMessage == "Models agreed. No re-feedback needed."
RevisedMessage == "Re-feedback complete. See final answers below."

\* process_validation: results[model_name] = {**data, "label": "Original", ...}
InitialEntry(data) ==
    Merge(data, [label |-> "Original", label_class |-> "original-label",
                 display_name |-> Get(data, "name", "None")])
InitialResults(answers) ==
    [i \in 1..Len(answers) |-> [k |-> answers[i].k, v |-> InitialEntry(answers[i].v)]]

\* ReviseEntry keeping the prior content only after the update has replaced it
ReviseEntryAfterUpdate(entry, data) ==
    LET updated == Merge(entry, Merge(data, [label |-> "Revised", label_class |-> "revised-label"]))
    IN  IF "content" \in DOMAIN updated
        THEN Merge(updated, [original_content |-> updated.content])
        ELSE updated

\* process_validation: what the loop over revised_answers does to one entry
ReviseEntry(entry, data) ==
    LET kept == IF "content" \in DOMAIN entry
                THEN Merge(entry, [original_content |-> entry.content])
                ELSE entry
    IN  Merge(kept, Merge(data, [label |-> "Revised", label_class |-> "revised-label"]))

\* process_validation: the loop over revised_answers.items()
RECURSIVE ApplyUpTo(_, _, _)
ApplyUpTo(rs, revised, n) ==
    IF n = 0 THEN rs
    ELSE LET sofar == ApplyUpTo(rs, revised, n - 1)
         IN  DictSet(sofar, revised[n].k, ReviseEntry(DictGet(sofar, revised[n].k), revised[n].v))
ApplyRevisions(rs, revised) == ApplyUpTo(rs, revised, Len(revised))

\* DisplayLabel without the relabelling to Defended
DisplayLabelStored(answer_data) ==
    IF "error" \in DOMAIN answer_data THEN "Error"
    ELSE Get(answer_data, "label", "Answer")

\* main: how an entry of st.session_state.results is shown: the error box,
\* or the label (Revised becoming Defended when the content did not change)
DisplayLabel(answer_data) ==
    IF "error" \in DOMAIN answer_data THEN "Error"
    ELSE LET label == Get(answer_data, "label", "Answer")
             original_content ==
                 Get(answer_data, "original_content", Get(answer_data, "content", "None"))
         IN  IF label = "Revised" /\ Get(answer_data, "content", "None") = original_content
             THEN "Defended"
             ELSE label

----------------------------------------------------------------------------
\* The state machine.

Running == pc \in {"initial", "judging", "compared", "revising"}

\* every call of the batch last issued has returned
AllReturned == DOMAIN call_results = 1..Len(tasks)

\* os.getenv of a key: unset, set to the empty string, or set
EnvValues == {<<>>, <<"">>, <<"sk-key">>}

\* `not key` of LLMHandler.__init__
NotSet(key) == key = <<>> \/ key[1] = ""

\* ValueError checking the first key only
ValueErrorOpenAIOnly(okey, gkey) ==
    IF NotSet(okey) THEN "OPENAI_API_KEY not found in .env file."
    ELSE ""

\* LLMHandler.__init__, the ValueError it raises, or "" when it constructs
ValueError(okey, gkey) ==
    IF NotSet(okey) THEN "OPENAI_API_KEY not found in .env file."
    ELSE IF NotSet(gkey) THEN "GEMINI_API_KEY not found in .env file."
    ELSE ""

\* the script has not run yet: nothing is cached, session_state is empty
Init ==
    /\ openai_api_key \in EnvValues
    /\ gemini_api_key \in EnvValues
    /\ llm_handler = "uncached"
    /\ config_error = <<>>
    /\ earlier_run = "none"
    /\ models = <<>>
    /\ pc = "idle"
    /\ question = ""
    /\ tasks = <<>>
    /\ call_results = EmptyDict
    /\ completion_order = <<>>
    /\ initial_answers = <<>>
    /\ judge_result = <<>>
    /\ answers_are_similar = FALSE
    /\ results = <<>>
    /\ session_state = [question |-> ""]
    /\ call_log = <<>>

\* get_llm_handler, first call: LLMHandler() is constructed and cached, or
\* its ValueError is shown and None is cached
GetLLMHandler ==
    /\ llm_handler = "uncached"
    /\ IF ValueError(openai_api_key, gemini_api_key) = ""
       THEN /\ llm_handler' = "LLMHandler"
            /\ models' = DefaultModels
            /\ config_error' = <<>>
       ELSE /\ llm_handler' = "None"
            /\ models' = models
            /\ config_error' = <<"Configuration Error: ",
                                 ValueError(openai_api_key, gemini_api_key)>>
    /\ UNCHANGED <<openai_api_key, gemini_api_key, earlier_run, pc, question, tasks,
                   call_results, completion_order, initial_answers, judge_result,
                   answers_are_similar, results, session_state, call_log>>

\* how the run now over ended, for the history of the next one
RunBefore ==
    IF pc = "aborted" THEN "aborted"
    ELSE IF pc = "done"
         THEN IF session_state.final_message = RevisedMessage THEN "revised" ELSE "agreed"
         ELSE earlier_run

\* Validate without st.session_state.clear()
ValidateKeepsSession(q) ==
    /\ llm_handler = "LLMHandler"
    /\ ~Running
    /\ earlier_run' = RunBefore
    /\ question' = q
    /\ session_state' = Merge(session_state, [question |-> q, processing_complete |-> FALSE])
    /\ results' = <<>>
    /\ initial_answers' = <<>>
    /\ judge_result' = <<>>
    /\ answers_are_similar' = FALSE
    /\ call_results' = EmptyDict
    /\ completion_order' = <<>>
    /\ IF InitialRaises(models)
       THEN /\ pc' = "aborted"
            /\ tasks' = <<>>
            /\ call_log' = <<>>
       ELSE /\ pc' = "initial"
            /\ tasks' = InitialTasks(models, q)
            /\ call_log' = InitialTasks(models, q)
    /\ UNCHANGED <<startup, models>>

\* main, the Validate button with a non-blank question: session_state is
\* cleared and process_validation runs up to the gather of
\* get_initial_answers; a KeyError out of it is caught by main.  main stops
\* before the button when there is no handler.
Validate(q) ==
    /\ llm_handler = "LLMHandler"
    /\ ~Running
    /\ earlier_run' = RunBefore
    /\ question' = q
    /\ session_state' = [question |-> q, processing_complete |-> FALSE]
    /\ results' = <<>>
    /\ initial_answers' = <<>>
    /\ judge_result' = <<>>
    /\ answers_are_similar' = FALSE
    /\ call_results' = EmptyDict
    /\ completion_order' = <<>>
    /\ IF InitialRaises(models)
       THEN /\ pc' = "aborted"
            /\ tasks' = <<>>
            /\ call_log' = <<>>
       ELSE /\ pc' = "initial"
            /\ tasks' = InitialTasks(models, q)
            /\ call_log' = InitialTasks(models, q)
    /\ UNCHANGED <<startup, models>>

\* CallReturns with a failure cancelling the calls still pending
CallReturnsCancelling(i, r) ==
    /\ pc \in {"initial", "revising"}
    /\ i \in (1..Len(tasks)) \ DOMAIN call_results
    /\ r \in Outcomes(tasks[i].api, Contents)
    /\ call_results' =
          IF r.success
          THEN [j \in (DOMAIN call_results) \cup {i} |->
                    IF j = i THEN r ELSE call_results[j]]
          ELSE [j \in 1..Len(tasks) |->
                    IF j = i THEN r
                    ELSE IF j \in DOMAIN call_results THEN call_results[j]
                    ELSE Failure("Cancelled")]
    /\ completion_order' = Append(completion_order, i)
    /\ UNCHANGED <<startup, earlier_run, models, pc, question, tasks, initial_answers, judge_result,
                   answers_are_similar, results, session_state, call_log>>

\* One call of the batch in flight returns its CallResult.
CallReturns(i, r) ==
    /\ pc \in {"initial", "revising"}
    /\ i \in (1..Len(tasks)) \ DOMAIN call_results
    /\ r \in Outcomes(tasks[i].api, Contents)
    /\ call_results' = [j \in (DOMAIN call_results) \cup {i} |->
                            IF j = i THEN r ELSE call_results[j]]
    /\ completion_order' = Append(completion_order, i)
    /\ UNCHANGED <<startup, earlier_run, models, pc, question, tasks, initial_answers, judge_result,
                   answers_are_similar, results, session_state, call_log>>

\* InitialJoin returning on the first call completed, the calls still
\* pending read as failures
InitialJoinOnFirst ==
    /\ pc = "initial"
    /\ DOMAIN call_results # {} \/ tasks = <<>>
    /\ LET returned == [j \in 1..Len(tasks) |->
                           IF j \in DOMAIN call_results THEN call_results[j]
                           ELSE Failure("Pending")]
           answers == InitialAnswers(models, Gather(Len(tasks), returned, completion_order))
           answer_list == AnswerList(answers)
       IN  /\ initial_answers' = answers
           /\ results' = InitialResults(answers)
           /\ session_state' = Merge(session_state, [results |-> InitialResults(answers)])
           /\ IF Len(answer_list) < 2
              THEN /\ answers_are_similar' = TRUE
                   /\ pc' = "compared"
                   /\ call_log' = call_log
              ELSE /\ answers_are_similar' = FALSE
                   /\ pc' = "judging"
                   /\ call_log' = Append(call_log, JudgeTask(question, answer_list))
    /\ UNCHANGED <<startup, earlier_run, models, question, tasks, call_results, completion_order, judge_result>>

\* The gather of get_initial_answers returns: the answers are built, results
\* is filled and stored, and are_answers_similar either returns True at once
\* or issues the judge call.
InitialJoin ==
    /\ pc = "initial"
    /\ AllReturned
    /\ LET answers == InitialAnswers(models, Gather(Len(tasks), call_results, completion_order))
           answer_list == AnswerList(answers)
       IN  /\ initial_answers' = answers
           /\ results' = InitialResults(answers)
           /\ session_state' = Merge(session_state, [results |-> InitialResults(answers)])
           /\ IF Len(answer_list) < 2
              THEN /\ answers_are_similar' = TRUE
                   /\ pc' = "compared"
                   /\ call_log' = call_log
              ELSE /\ answers_are_similar' = FALSE
                   /\ pc' = "judging"
                   /\ call_log' = Append(call_log, JudgeTask(question, answer_list))
    /\ UNCHANGED <<startup, earlier_run, models, question, tasks, call_results, completion_order, judge_result>>

\* The judge call returns and are_answers_similar returns its verdict.
JudgeReturns(r) ==
    /\ pc = "judging"
    /\ r \in Outcomes(JudgeApi, JudgeReplies)
    /\ judge_result' = <<r>>
    /\ answers_are_similar' = Verdict(r)
    /\ pc' = "compared"
    /\ UNCHANGED <<startup, earlier_run, models, question, tasks, call_results, completion_order,
                   initial_answers, results, session_state, call_log>>

\* Agreed reporting the other branch's message
AgreedAsRevised ==
    /\ pc = "compared"
    /\ answers_are_similar
    /\ judge_result' = <<>>
    /\ session_state' = Merge(session_state,
            [final_message |-> RevisedMessage, results |-> results,
             processing_complete |-> TRUE])
    /\ pc' = "done"
    /\ UNCHANGED <<startup, earlier_run, models, question, tasks, call_results, completion_order,
                   initial_answers, answers_are_similar, results, call_log>>

\* process_validation, step 3, the answers are similar.
Agreed ==
    /\ pc = "compared"
    /\ answers_are_similar
    /\ judge_result' = <<>>
    /\ session_state' = Merge(session_state,
            [final_message |-> AgreedMessage, results |-> results,
             processing_complete |-> TRUE])
    /\ pc' = "done"
    /\ UNCHANGED <<startup, earlier_run, models, question, tasks, call_results, completion_order,
                   initial_answers, answers_are_similar, results, call_log>>

\* process_validation, step 3, the answers differ: get_revised_answers
\* runs up to its gather.
Disagreed ==
    /\ pc = "compared"
    /\ ~answers_are_similar
    /\ judge_result' = <<>>
    /\ call_results' = EmptyDict
    /\ completion_order' = <<>>
    /\ IF RevisionRaises(models, initial_answers)
       THEN /\ pc' = "aborted"
            /\ tasks' = <<>>
            /\ call_log' = call_log
       ELSE /\ pc' = "revising"
            /\ tasks' = RevisionTasks(models, question, initial_answers)
            /\ call_log' = call_log \o RevisionTasks(models, question, initial_answers)
    /\ UNCHANGED <<startup, earlier_run, models, question, initial_answers, answers_are_similar, results,
                   session_state>>

\* RevisionJoin taking the results in the order the calls returned
RevisionJoinAsCompleted ==
    /\ pc = "revising"
    /\ AllReturned
    /\ LET revised == RevisedAnswers(tasks,
                          GatherAsCompleted(Len(tasks), call_results, completion_order),
                          initial_answers)
       IN  /\ results' = ApplyRevisions(results, revised)
           /\ session_state' = Merge(session_state,
                   [final_message |-> RevisedMessage,
                    results |-> ApplyRevisions(results, revised),
                    processing_complete |-> TRUE])
    /\ pc' = "done"
    /\ UNCHANGED <<startup, earlier_run, models, question, tasks, call_results, completion_order,
                   initial_answers, judge_result, answers_are_similar, call_log>>

\* The gather of get_revised_answers returns: the revised answers are
\* built and merged into results, and the run completes.
RevisionJoin ==
    /\ pc = "revising"
    /\ AllReturned
    /\ LET revised == RevisedAnswers(tasks,
                          Gather(Len(tasks), call_results, completion_order), initial_answers)
       IN  /\ results' = ApplyRevisions(results, revised)
           /\ session_state' = Merge(session_state,
                   [final_message |-> RevisedMessage,
                    results |-> ApplyRevisions(results, revised),
                    processing_complete |-> TRUE])
    /\ pc' = "done"
    /\ UNCHANGED <<startup, earlier_run, models, question, tasks, call_results, completion_order,
                   initial_answers, judge_result, answers_are_similar, call_log>>

\* LLMHandler.add_model, display_name left to default to the name
AddModel(name, model_id) ==
    /\ llm_handler = "LLMHandler"
    /\ ~Running
    /\ Len(models) < MaxModels
    /\ models' = Append(models, [name |-> name, model_id |-> model_id, display_name |-> name])
    /\ UNCHANGED <<startup, earlier_run, pc, question, tasks, call_results, completion_order, initial_answers,
                   judge_result, answers_are_similar, results, session_state, call_log>>

\* LLMHandler.remove_model
WithoutName(ms, name) ==
    LET Keep(m) == m.name # name
    IN  SelectSeq(ms, Keep)
RemoveModel(name) ==
    /\ llm_handler = "LLMHandler"
    /\ ~Running
    /\ models' = WithoutName(models, name)
    /\ UNCHANGED <<startup, earlier_run, pc, question, tasks, call_results, completion_order, initial_answers,
                   judge_result, answers_are_similar, results, session_state, call_log>>

\* main, the Clear Results button, shown when there are results; the rerun
\* puts the empty question back, and nothing of the finished run is left
ClearResults ==
    /\ ~Running
    /\ "results" \in DOMAIN session_state
    /\ session_state.results # <<>>
    /\ session_state' = [question |-> ""]
    /\ pc' = "idle"
    /\ question' = ""
    /\ tasks' = <<>>
    /\ call_results' = EmptyDict
    /\ completion_order' = <<>>
    /\ initial_answers' = <<>>
    /\ judge_result' = <<>>
    /\ answers_are_similar' = FALSE
    /\ results' = <<>>
    /\ call_log' = <<>>
    /\ earlier_run' = RunBefore
    /\ UNCHANGED <<startup, models>>

Next ==
    \/ GetLLMHandler
    \/ \E q \in Questions : Validate(q)
    \/ \E i \in 1..MaxModels, r \in Outcomes("openai", Contents) \cup Outcomes("gemini", Contents) :
          CallReturns(i, r)
    \/ InitialJoin
    \/ \E r \in Outcomes(JudgeApi, JudgeReplies) : JudgeReturns(r)
    \/ Agreed
    \/ Disagreed
    \/ RevisionJoin
    \/ \E name \in RegistryNames, model_id \in RegistryModelIds : AddModel(name, model_id)
    \/ \E name \in RegistryNames : RemoveModel(name)
    \/ ClearResults

Spec == Init /\ [][Next]_vars

----------------------------------------------------------------------------
\* Vocabulary of the properties.

\* the answer entries of a ResultSet
Entries(d) == {d[i].v : i \in 1..Len(d)}
HasKey(e, key) == key \in DOMAIN e

\* the initial round has been gathered
InitialGathered == pc \in {"judging", "compared", "revising", "done"}
\* the providers whose initial call returned content
ContentBearing == {i \in 1..Len(initial_answers) : HasKey(initial_answers[i].v, "content")}

\* the calls of one kind this run has issued
CallsOfKind(kind) == {i \in 1..Len(call_log) : call_log[i].kind = kind}
RevisionCallsTo(name) ==
    {i \in CallsOfKind("revision") : call_log[i].name = name}

\* the run ended, on the agreed path or after the revision gather
EndedAgreed == pc = "done" /\ session_state.final_message = AgreedMessage
EndedRevised == pc = "done" /\ session_state.final_message = RevisedMessage

\* on the revision path, the result of the revision call made for a provider
RevisionTaskOf(name) == CHOOSE i \in 1..Len(tasks) : tasks[i].name = name
RevisionFailed(name) ==
    /\ EndedRevised
    /\ \E i \in 1..Len(tasks) : tasks[i].name = name
    /\ ~call_results[RevisionTaskOf(name)].success
RevisionSucceeded(name) ==
    /\ EndedRevised
    /\ \E i \in 1..Len(tasks) : tasks[i].name = name
    /\ call_results[RevisionTaskOf(name)].success

----------------------------------------------------------------------------
\* C1 as stated: in the initial ResultSet, in results and in the stored
\* results, every entry has content or error and never both.
C1_ContentXorError ==
    \A e \in Entries(initial_answers) \cup Entries(results)
             \cup Entries(Get(session_state, "results", <<>>)) :
        HasKey(e, "content") # HasKey(e, "error")

\* C1 as amended: every entry has content or error, never neither; every
\* entry of the initial ResultSet has exactly one of the two; an entry of
\* the final ResultSet has both exactly when its revision call failed (it
\* keeps the content of the initial round and gains the error), and is then
\* shown as an error.
C1_ContentOrError ==
    /\ \A e \in Entries(initial_answers) : HasKey(e, "content") # HasKey(e, "error")
    /\ \A i \in 1..Len(results) :
          LET e == results[i].v
          IN  /\ HasKey(e, "content") \/ HasKey(e, "error")
              /\ (HasKey(e, "content") /\ HasKey(e, "error")) <=> RevisionFailed(results[i].k)
              /\ HasKey(e, "error") <=> DisplayLabel(e) = "Error"
    /\ "results" \in DOMAIN session_state => session_state.results = results

\* C1 witness: the revision gather has returned with one revision failed and
\* one succeeded.
C1_Witness ==
    /\ EndedRevised
    /\ \E i, j \in 1..Len(results) :
          /\ HasKey(results[i].v, "content") /\ HasKey(results[i].v, "error")
          /\ HasKey(results[j].v, "content") /\ ~HasKey(results[j].v, "error")

----------------------------------------------------------------------------
\* C2: once the initial round is gathered with fewer than 2 content-bearing
\* entries, the run has made no judge call, the verdict is agreement, and
\* the run ends with the agreement message and no revision call.
C2_FewerThanTwoSkipsJudge ==
    (InitialGathered /\ Cardinality(ContentBearing) < 2) =>
        /\ CallsOfKind("judge") = {}
        /\ pc \in {"compared", "done"}
        /\ answers_are_similar
        /\ pc = "done" => (EndedAgreed /\ CallsOfKind("revision") = {})

\* C2 witness: a run that ended with one provider failed and one answering.
C2_Witness ==
    /\ pc = "done"
    /\ Len(initial_answers) = 2
    /\ Cardinality(ContentBearing) = 1
    /\ \E e \in Entries(initial_answers) : HasKey(e, "error")

----------------------------------------------------------------------------
\* the reply is YES in any letter case with only whitespace around it
YesLetters == << {"Y", "y"}, {"E", "e"}, {"S", "s"} >>
IsYesReply(reply) ==
    \E first \in 1..Len(reply) :
        /\ first + 2 <= Len(reply)
        /\ \A k \in 0..2 : reply[first + k] \in YesLetters[k + 1]
        /\ \A j \in 1..Len(reply) :
              (j < first \/ j > first + 2) => reply[j] \in Whitespace

\* C3: when the judge call has returned, the verdict is agreement exactly
\* when the call succeeded and its reply is YES in any letter case with
\* only whitespace around it; a failed call and any other reply give
\* disagreement.
C3_VerdictIffYes ==
    (pc = "compared" /\ judge_result # <<>>) =>
        (answers_are_similar <=>
            (judge_result[1].success /\ IsYesReply(judge_result[1].content)))

\* C3 witness: the judge answered " yes" and a newline, and the verdict is
\* agreement.
C3_Witness ==
    /\ pc = "compared"
    /\ judge_result = <<Success(<<" ", "y", "e", "s", "\n">>)>>
    /\ answers_are_similar

----------------------------------------------------------------------------
\* the revision step has been entered
OnRevisionPath == pc = "revising" \/ EndedRevised

\* a provider of the initial ResultSet that has a counterpart (another
\* provider) and has content from the initial round
HasCounterpart(name) == \E i \in 1..Len(initial_answers) : initial_answers[i].k # name
Eligible(name) ==
    /\ HasCounterpart(name)
    /\ HasKey(DictGet(initial_answers, name), "content")

\* the judge has just replied NO to two content-bearing answers
JudgeSaidNo ==
    /\ pc = "compared"
    /\ judge_result = <<Success(<<"N", "O">>)>>
    /\ Cardinality(ContentBearing) = 2

\* C4, the state part: on the revision path every provider with a
\* counterpart and initial content has exactly one revision call, every
\* other provider has none and its final entry is the initial one.
C4_RevisionCalls ==
    OnRevisionPath =>
        \A i \in 1..Len(initial_answers) :
            LET name == initial_answers[i].k
            IN  IF Eligible(name)
                THEN Cardinality(RevisionCallsTo(name)) = 1
                ELSE /\ RevisionCallsTo(name) = {}
                     /\ pc = "done" =>
                            DictGet(results, name) = InitialEntry(initial_answers[i].v)

\* C4: the state part always holds, and the step after the judge replied NO
\* to two content-bearing answers issues exactly 2 revision calls.
C4_OneRevisionCallEach ==
    /\ []C4_RevisionCalls
    /\ [][JudgeSaidNo => (pc' = "revising" /\ Cardinality(CallsOfKind("revision")') = 2)]_vars

\* C4 witness: both providers answered, the run is disagreed, and the two
\* revision calls are in flight.
C4_Witness ==
    /\ pc = "revising"
    /\ Cardinality(ContentBearing) = 2
    /\ \A i \in 1..Len(initial_answers) :
          Cardinality(RevisionCallsTo(initial_answers[i].k)) = 1

----------------------------------------------------------------------------
\* C5: at the end of a run an entry is shown as Defended exactly when its
\* revision succeeded and its content equals its original_content, and as
\* Revised when its revision succeeded with a different content.
C5_DefendedIffUnchanged ==
    pc = "done" =>
        \A i \in 1..Len(results) :
            LET e == results[i].v
                unchanged == /\ RevisionSucceeded(results[i].k)
                             /\ e.content = e.original_content
            IN  /\ DisplayLabel(e) = "Defended" <=> unchanged
                /\ (RevisionSucceeded(results[i].k) /\ ~unchanged) =>
                       DisplayLabel(e) = "Revised"

\* C5 witness: after the revision gather one provider kept its answer and
\* the other changed it.
C5_Witness ==
    /\ EndedRevised
    /\ \E i, j \in 1..Len(results) :
          /\ DisplayLabel(results[i].v) = "Defended"
          /\ DisplayLabel(results[j].v) = "Revised"
          /\ results[j].v.content # results[j].v.original_content

----------------------------------------------------------------------------
\* C6: a run that ended on the agreed path has made no revision call, its
\* completion message is the agreement message, and its final ResultSet is
\* the initial one: the same providers in the same order, every field of
\* the initial entry kept (a failed provider's error included), every label
\* Original and no original_content.
C6_AgreedLeavesInitial ==
    (pc = "done" /\ answers_are_similar) =>
        /\ CallsOfKind("revision") = {}
        /\ session_state.final_message = AgreedMessage
        /\ session_state.processing_complete
        /\ session_state.results = results
        /\ DictKeys(results) = DictKeys(initial_answers)
        /\ \A i \in 1..Len(results) :
              LET e == results[i].v
                  initial == initial_answers[i].v
              IN  /\ e.label = "Original"
                  /\ DisplayLabel(e) \in {"Original", "Error"}
                  /\ ~HasKey(e, "original_content")
                  /\ \A key \in DOMAIN initial : HasKey(e, key) /\ e[key] = initial[key]
                  /\ HasKey(e, "error") <=> HasKey(initial, "error")

\* C6 witness: both providers answered, the judge was called and the run
\* ended agreed.
C6_Witness ==
    /\ pc = "done"
    /\ answers_are_similar
    /\ Cardinality(ContentBearing) = 2
    /\ Cardinality(CallsOfKind("judge")) = 1

----------------------------------------------------------------------------
\* the judge call has just failed
JudgeFailed ==
    /\ pc = "compared"
    /\ judge_result # <<>>
    /\ ~judge_result[1].success

\* C7: a failed judge call gives the verdict disagreement, and the next step
\* enters the revision step with one revision call for each of the two
\* providers.
C7_JudgeFailureRevises ==
    /\ [](JudgeFailed => (~answers_are_similar /\ Cardinality(ContentBearing) = 2))
    /\ [][JudgeFailed =>
            /\ pc' = "revising"
            /\ \A i \in 1..Len(initial_answers) :
                  Cardinality(RevisionCallsTo(initial_answers[i].k)') = 1]_vars

\* C7 witness: both providers answered and the judge call failed.
C7_Witness ==
    /\ JudgeFailed
    /\ Len(initial_answers) = 2
    /\ ~answers_are_similar

----------------------------------------------------------------------------
\* C8 as stated, in the form a finite run refutes: a run that has been
\* started and is no longer running has reached Done, with
\* processing_complete set and a completion message, agreed or revised.
C8_RunEndsDone ==
    (~Running /\ pc # "idle") =>
        /\ pc = "done"
        /\ Get(session_state, "processing_complete", FALSE)
        /\ Get(session_state, "final_message", "None") \in {AgreedMessage, RevisedMessage}

----------------------------------------------------------------------------
\* a fan-out batch is in flight
BatchInFlight == pc \in {"initial", "revising"}
Pending == (1..Len(tasks)) \ DOMAIN call_results
WellFormed(result) ==
    \/ result.success /\ HasKey(result, "content") /\ ~HasKey(result, "error")
    \/ ~result.success /\ HasKey(result, "error") /\ ~HasKey(result, "content")

\* C9, the state part: whatever the other calls of the batch have returned,
\* a pending call can still return each of its outcomes; every result
\* returned is a CallResult; and after the initial join every provider of
\* the batch has its entry.
C9_SiblingsUntouched ==
    /\ BatchInFlight =>
          /\ \A i \in Pending : \A r \in Outcomes(tasks[i].api, Contents) :
                ENABLED CallReturns(i, r)
          /\ \A i \in DOMAIN call_results : WellFormed(call_results[i])
    /\ pc \in {"judging", "compared"} =>
          \A i \in 1..Len(tasks) : DictHas(initial_answers, tasks[i].name)

\* C9: a call that returns, with a failure or not, fills its own result and
\* leaves the results of the others and the pending calls as they are; the
\* batch is left only when every call has returned, and never by an
\* exception.
C9_BatchIsolation ==
    /\ []C9_SiblingsUntouched
    /\ [][(BatchInFlight /\ call_results' # call_results) =>
            /\ pc' = pc /\ tasks' = tasks
            /\ \E i \in Pending :
                  /\ DOMAIN call_results' = DOMAIN call_results \cup {i}
                  /\ \A j \in DOMAIN call_results : call_results'[j] = call_results[j]]_vars
    /\ [][(BatchInFlight /\ pc' # pc) => (AllReturned /\ pc' # "aborted")]_vars

\* C9 witness: in one batch the first call failed and the second, returning
\* after it, succeeded.
C9_Witness ==
    /\ pc = "initial"
    /\ completion_order = <<1, 2>>
    /\ ~call_results[1].success
    /\ call_results[2].success

----------------------------------------------------------------------------
\* C10: after the initial join the answers are keyed by the providers in
\* the order of the batch and each entry carries the result of its own
\* call; after the revision join the entries keep that order and each
\* revised entry carries the result of its own revision call.
C10_MappingIgnoresCompletionOrder ==
    /\ (pc \in {"judging", "compared"} \/ EndedAgreed) =>
          /\ DictKeys(initial_answers) = [i \in 1..Len(tasks) |-> tasks[i].name]
          /\ DictKeys(results) = DictKeys(initial_answers)
          /\ \A i \in 1..Len(tasks) : \A key \in DOMAIN call_results[i] :
                /\ initial_answers[i].v[key] = call_results[i][key]
                /\ results[i].v[key] = call_results[i][key]
    /\ EndedRevised =>
          /\ DictKeys(results) = DictKeys(initial_answers)
          /\ \A i \in 1..Len(tasks) :
                LET e == DictGet(results, tasks[i].name)
                IN  IF call_results[i].success
                    THEN e.content = call_results[i].content /\ ~HasKey(e, "error")
                    ELSE e.error = call_results[i].error

\* C10 witness: the second call of the initial batch returned first, with
\* another result than the first, and the answers are built.
C10_Witness ==
    /\ pc \in {"judging", "compared"}
    /\ completion_order = <<2, 1>>
    /\ call_results[1].success
    /\ call_results[2].success
    /\ call_results[1].content # call_results[2].content

----------------------------------------------------------------------------
\* a provider call is in flight: a call of the batch has not returned, or
\* the judge call has not
CallInFlight == (BatchInFlight /\ Pending # {}) \/ pc = "judging"
\* this step issues a call of the kind
Issues(kind) == \E i \in CallsOfKind(kind)' : i > Len(call_log)
\* the ResultSet, local or stored, is written by this step
WritesResults ==
    \/ results' # results
    \/ Get(session_state, "results", <<>>)' # Get(session_state, "results", <<>>)

\* C11: the phases of a run never overlap.  In the log of the calls issued
\* every initial call precedes the judge call and the judge call precedes
\* every revision call; while the judge call is in flight every initial
\* call has returned; the judge call is issued only by a step taken when
\* every initial call has returned; the revision calls are issued only by
\* a step taken when the judge has returned and the verdict is
\* disagreement; and no step taken while a provider call is in flight
\* writes the ResultSet.
C11_PhasesNeverOverlap ==
    /\ [](/\ \A i \in CallsOfKind("initial"), j \in CallsOfKind("judge") : i < j
          /\ \A j \in CallsOfKind("judge"), k \in CallsOfKind("revision") : j < k
          /\ \A i \in CallsOfKind("initial"), k \in CallsOfKind("revision") : i < k
          /\ pc = "judging" =>
                /\ AllReturned
                /\ \A i \in 1..Len(tasks) : tasks[i].kind = "initial"
          /\ CallsOfKind("revision") # {} =>
                /\ pc \in {"revising", "done"}
                /\ ~answers_are_similar
                /\ CallsOfKind("judge") # {})
    /\ [][Issues("judge") => (pc = "initial" /\ AllReturned)]_vars
    /\ [][Issues("revision") =>
             /\ pc = "compared"
             /\ judge_result # <<>>
             /\ ~answers_are_similar]_vars
    /\ [][WritesResults => ~CallInFlight]_vars

\* C11 witness: the three phases have followed one another and the
\* revision calls are in flight, the ResultSet still that of the initial
\* round.
C11_Witness ==
    /\ pc = "revising"
    /\ Pending = 1..Len(tasks)
    /\ Cardinality(CallsOfKind("initial")) = 2
    /\ Cardinality(CallsOfKind("judge")) = 1
    /\ Cardinality(CallsOfKind("revision")) = 2
    /\ results = InitialResults(initial_answers)

----------------------------------------------------------------------------
\* the names of the initial calls this run has issued
InitialCallNames == {call_log[i].name : i \in CallsOfKind("initial")}
\* what the stored session holds of a run's outcome
StoredResults == Get(session_state, "results", <<>>)
OutcomeKeys == (DOMAIN session_state) \cap {"results", "final_message"}

\* C12: each run starts from an empty ResultSet and shows nothing of an
\* earlier run.  While the initial calls are out, results, the initial
\* answers and the stored session hold no entry and no completion message;
\* a run that aborts before its initial round shows none either; until the
\* run completes there is no completion message and processing_complete
\* is false; every entry, local or stored, is keyed by a provider this
\* run called, and before the revision join it is the entry of this run's
\* initial answer, labelled Original and without original_content; an
\* entry has original_content only when this run issued revision calls;
\* and the completion message is the one of the path this run took.
C12_RunStartsEmpty ==
    /\ pc = "initial" =>
          /\ results = <<>>
          /\ initial_answers = <<>>
          /\ OutcomeKeys = {}
    /\ (pc = "aborted" /\ initial_answers = <<>>) =>
          /\ results = <<>>
          /\ OutcomeKeys = {}
    /\ (Running \/ pc = "aborted") =>
          /\ ~HasKey(session_state, "final_message")
          /\ session_state.processing_complete = FALSE
    /\ pc # "idle" => session_state.question = question
    /\ StoredResults = results
    /\ \A i \in 1..Len(results) : results[i].k \in InitialCallNames
    /\ pc \in {"judging", "compared", "revising"} =>
          results = InitialResults(initial_answers)
    /\ \A e \in Entries(results) :
          HasKey(e, "original_content") => CallsOfKind("revision") # {}
    /\ pc = "done" =>
          session_state.final_message =
              IF CallsOfKind("revision") # {} THEN RevisedMessage ELSE AgreedMessage

\* C12 witness: the run after one that ended on the revision path has
\* ended agreed, and its entries carry no original_content.
C12_Witness ==
    /\ earlier_run = "revised"
    /\ EndedAgreed
    /\ results # <<>>
    /\ \A e \in Entries(results) : ~HasKey(e, "original_content")

----------------------------------------------------------------------------
\* The CallResults a run has received, by the call they answer: the result
\* of provider i's initial call as the initial answers keep it, and of its
\* revision call.
ResultKeys == {"success", "content", "error"}
InitialReceived(i) ==
    [key \in (DOMAIN initial_answers[i].v) \cap ResultKeys |-> initial_answers[i].v[key]]
InitialSucceeded == {i \in 1..Len(initial_answers) : InitialReceived(i).success}
RevisionReceived(name) == call_results[RevisionTaskOf(name)]

\* the fields of an entry the run decides
Decided(e) == [key \in (DOMAIN e) \cap {"content", "error", "original_content", "label"}
                  |-> e[key]]
\* what the final entry of provider i is, from the results received alone
FinalDecided(i) ==
    IF CallsOfKind("revision") = {}
    THEN Merge([key \in (DOMAIN InitialReceived(i)) \ {"success"} |-> InitialReceived(i)[key]],
               [label |-> "Original"])
    ELSE LET first == InitialReceived(i).content
             rev == RevisionReceived(initial_answers[i].k)
         IN  IF rev.success
             THEN [content |-> rev.content, original_content |-> first, label |-> "Revised"]
             ELSE [content |-> first, original_content |-> first, label |-> "Revised",
                   error |-> rev.error]

\* the phase a running run enters next, from the results received alone
PhaseAfter ==
    IF pc = "initial"
    THEN IF Cardinality({i \in DOMAIN call_results : call_results[i].success}) >= 2
         THEN "judging" ELSE "compared"
    ELSE IF pc = "judging" THEN "compared"
    ELSE IF pc = "compared" THEN (IF answers_are_similar THEN "done" ELSE "revising")
    ELSE "done"

\* C13: the shape of a run is a function of the provider configuration and
\* of the CallResults received, in which neither the order the calls
\* returned in nor any earlier run occurs; two runs with the same
\* configuration and the same CallResults therefore agree.  Once the
\* initial round is gathered there is one initial call per provider and
\* one judge call exactly when two initial calls succeeded; the verdict is
\* agreement exactly when no judge call was needed or the judge succeeded
\* with YES; there are revision calls, one per provider, exactly when the
\* verdict is disagreement; every change of phase of a running run is the
\* one the results received decide; and the final entry of every provider
\* is the one its own results decide.
C13_ShapeIsAFunctionOfResults ==
    /\ [](/\ InitialGathered =>
                /\ Cardinality(CallsOfKind("initial")) = Len(initial_answers)
                /\ Cardinality(CallsOfKind("judge")) =
                      IF Cardinality(InitialSucceeded) >= 2 THEN 1 ELSE 0
          /\ pc = "compared" =>
                answers_are_similar =
                    IF judge_result = <<>> THEN Cardinality(InitialSucceeded) < 2
                    ELSE /\ judge_result[1].success
                         /\ IsYesReply(judge_result[1].content)
          /\ pc \in {"revising", "done"} =>
                Cardinality(CallsOfKind("revision")) =
                    IF answers_are_similar THEN 0 ELSE Len(initial_answers)
          /\ pc = "done" =>
                /\ Len(results) = Len(initial_answers)
                /\ \A i \in 1..Len(results) :
                      /\ results[i].k = initial_answers[i].k
                      /\ Decided(results[i].v) = FinalDecided(i))
    /\ [][(Running /\ pc' # pc) => pc' = PhaseAfter]_vars

\* C13 witness: a run on the revision path has ended whose second revision
\* call returned before the first and with another result.
C13_Witness ==
    /\ EndedRevised
    /\ completion_order = <<2, 1>>
    /\ ~call_results[1].success
    /\ call_results[2].success
    /\ call_results[2].content # InitialReceived(2).content

----------------------------------------------------------------------------
\* the names of the registry, and of the calls logged, in order
RegistryNamesNow == [i \in 1..Len(models) |-> models[i].name]
LoggedNames == [i \in 1..Len(call_log) |-> call_log[i].name]

\* C14 as stated: the step that starts a run issues exactly one initial
\* call per provider of the registry, in registry order, whatever
\* add_model and remove_model did before; and while the run goes on after
\* its initial round the initial ResultSet has exactly one entry per
\* provider name of the registry.
C14_OneInitialCallPerProvider ==
    /\ [][(\E q \in Questions : Validate(q)) =>
             /\ LoggedNames' = RegistryNamesNow
             /\ \A i \in 1..Len(call_log') : call_log'[i].kind = "initial"]_vars
    /\ [](pc \in {"judging", "compared", "revising"} =>
             DictKeys(initial_answers) = RegistryNamesNow)

----------------------------------------------------------------------------
\* a name is in the registry
Registered(name) == \E i \in 1..Len(models) : models[i].name = name

\* C15 as stated: the provider names of the registry are pairwise
\* distinct in every reachable state; add_model with a name already
\* registered leaves the registry unchanged; remove_model with a name not
\* registered leaves the registry unchanged.
C15_NamesPairwiseDistinct ==
    /\ [](\A i, j \in 1..Len(models) : i # j => models[i].name # models[j].name)
    /\ [][\A name \in RegistryNames, model_id \in RegistryModelIds :
             (Registered(name) /\ AddModel(name, model_id)) => models' = models]_vars
    /\ [][\A name \in RegistryNames :
             (~Registered(name) /\ RemoveModel(name)) => models' = models]_vars

----------------------------------------------------------------------------
\* a backend credential is missing: the variable is unset or empty
Missing(key) == key \in {<<>>, <<"">>}
CredentialMissing == Missing(openai_api_key) \/ Missing(gemini_api_key)

\* C16: with a credential missing no handler is ever constructed: the
\* first get_llm_handler ends with None cached and a configuration error
\* shown that names the first missing key; in every state no run can
\* start, no registry operation is possible, no provider call is issued
\* or answered and there is no ResultSet, so the missing credential never
\* appears as the failure of a call.  With both credentials set no
\* configuration error is ever shown.
C16_MissingCredentialStopsStartup ==
    /\ [](CredentialMissing =>
             /\ llm_handler \in {"uncached", "None"}
             /\ llm_handler = "None" <=> config_error # <<>>
             /\ config_error # <<>> =>
                   config_error =
                       <<"Configuration Error: ",
                         IF Missing(openai_api_key)
                         THEN "OPENAI_API_KEY not found in .env file."
                         ELSE "GEMINI_API_KEY not found in .env file.">>
             /\ models = <<>>
             /\ pc = "idle"
             /\ \A q \in Questions : ~ENABLED Validate(q)
             /\ call_log = <<>>
             /\ tasks = <<>>
             /\ call_results = EmptyDict
             /\ results = <<>>
             /\ StoredResults = <<>>)
    /\ [](~CredentialMissing => (config_error = <<>> /\ llm_handler # "None"))
    /\ [][(CredentialMissing /\ llm_handler = "uncached" /\ llm_handler' # llm_handler)
             => llm_handler' = "None"]_vars

\* C16 witness: only the second credential is missing, set to the empty
\* string, and the startup has ended with the configuration error.
C16_Witness ==
    /\ openai_api_key = <<"sk-key">>
    /\ gemini_api_key = <<"">>
    /\ llm_handler = "None"
    /\ config_error = <<"Configuration Error: ", "GEMINI_API_KEY not found in .env file.">>

----------------------------------------------------------------------------
\* C17 as stated: after the revision join, the entry of a provider whose
\* revision call failed is its entry of the initial round (same content,
\* label Original, no original_content) with the error of the revision
\* call added and nothing else changed, and it is shown as an error.
C17_FailedRevisionKeepsEntry ==
    \A i \in 1..Len(results) :
        RevisionFailed(results[i].k) =>
            /\ results[i].v =
                  Merge(InitialEntry(DictGet(initial_answers, results[i].k)),
                        [error |-> RevisionReceived(results[i].k).error])
            /\ results[i].v.label = "Original"
            /\ ~HasKey(results[i].v, "original_content")
            /\ DisplayLabel(results[i].v) = "Error"

----------------------------------------------------------------------------
\* C18: in every reachable state an entry of the initial answers has no
\* original_content, and an entry of the ResultSet, local or stored, has
\* original_content only if this run issued a revision call for its
\* provider, and then it is the content the provider's initial call
\* returned.
C18_OriginalContentIsInitialContent ==
    /\ \A e \in Entries(initial_answers) : ~HasKey(e, "original_content")
    /\ \A rs \in {results, StoredResults} : \A i \in 1..Len(rs) :
          HasKey(rs[i].v, "original_content") =>
              /\ Cardinality(RevisionCallsTo(rs[i].k)) = 1
              /\ DictHas(initial_answers, rs[i].k)
              /\ DictGet(initial_answers, rs[i].k).success
              /\ rs[i].v.original_content = DictGet(initial_answers, rs[i].k).content

\* C18 witness: a revision call has returned another text than the initial
\* round, and the entry holds the new text as content and the initial one
\* as original_content.
C18_Witness ==
    /\ EndedRevised
    /\ \E i \in 1..Len(results) :
          /\ RevisionSucceeded(results[i].k)
          /\ results[i].v.content = "four"
          /\ results[i].v.original_content = "4"
          /\ DictGet(initial_answers, results[i].k).content = "4"

----------------------------------------------------------------------------
\* the prompt of a logged call
PromptOf(k) == call_log[k].messages[1].content

\* C19: every revision call carries one message, the feedback prompt with
\* the question, the provider's own content of the initial round as its
\* answer and the content of the initial round of the other provider as
\* the other answer; the step that issues the revision calls issues them
\* all, from the initial ResultSet and before any of them has returned;
\* and while they are in flight no call is issued or rebuilt, whatever
\* has returned.
C19_PromptsFromInitialAnswers ==
    /\ [](\A k \in CallsOfKind("revision") :
             /\ Len(call_log[k].messages) = 1
             /\ PromptOf(k).template = "feedback"
             /\ PromptOf(k).question = question
             /\ PromptOf(k).yours = DictGet(initial_answers, call_log[k].name).content
             /\ \E j \in 1..Len(initial_answers) : initial_answers[j].k # call_log[k].name
             /\ \A j \in 1..Len(initial_answers) :
                   initial_answers[j].k # call_log[k].name =>
                       PromptOf(k).other = initial_answers[j].v.content)
    /\ [][Issues("revision") =>
             /\ results = InitialResults(initial_answers)
             /\ call_results' = EmptyDict
             /\ tasks' = [k \in 1..Len(tasks') |-> call_log'[Len(call_log) + k]]
             /\ \A name \in InitialCallNames : Cardinality(RevisionCallsTo(name)') = 1]_vars
    /\ [][(pc = "revising" /\ pc' = "revising") =>
             (tasks' = tasks /\ call_log' = call_log)]_vars

\* C19 witness: the answers of the initial round differ, the second
\* provider's revision has returned with the first provider's answer, and
\* the first provider's call, still in flight, carries the two answers of
\* the initial round.
C19_Witness ==
    /\ pc = "revising"
    /\ DOMAIN call_results = {2}
    /\ call_results[2].success
    /\ call_results[2].content = "4"
    /\ tasks[1].messages[1].content.yours = "4"
    /\ tasks[1].messages[1].content.other = "four"

----------------------------------------------------------------------------
\* the smallest element of a non-empty set of indexes
Lowest(S) == CHOOSE i \in S : \A j \in S : i <= j
\* a provider's answer as the comparison prompt names it
Named(i) == [name |-> initial_answers[i].v.name, content |-> initial_answers[i].v.content]

\* C20: once the initial round is gathered with two or more entries that
\* have content, the run has issued exactly one judge call, to the judge
\* model, at temperature 0, with one message, the comparison prompt with
\* the question and, in this order, the first and the second
\* content-bearing entry of the initial ResultSet in provider order.
C20_OneJudgeCallOnFirstTwo ==
    (InitialGathered /\ Cardinality(ContentBearing) >= 2) =>
        /\ Cardinality(CallsOfKind("judge")) = 1
        /\ \A k \in CallsOfKind("judge") :
              /\ call_log[k].temp = 0
              /\ call_log[k].api = "openai"
              /\ call_log[k].model_id = "gpt-4o-mini"
              /\ Len(call_log[k].messages) = 1
              /\ PromptOf(k).template = "comparison"
              /\ PromptOf(k).question = question
              /\ PromptOf(k).first = Named(Lowest(ContentBearing))
              /\ PromptOf(k).second =
                    Named(Lowest(ContentBearing \ {Lowest(ContentBearing)}))

\* C20 witness: the judge call is in flight on two answers that differ,
\* the first provider's first.
C20_Witness ==
    /\ pc = "judging"
    /\ Cardinality(ContentBearing) = 2
    /\ \E k \in CallsOfKind("judge") :
          /\ PromptOf(k).first = [name |-> "GPT-4o-mini", content |-> "four"]
          /\ PromptOf(k).second = [name |-> "Gemini-1.5-Flash", content |-> "4"]

====
